---- MODULE Spec2Model ----
(***************************************************************************)
(* The voice-chat client of livekit-web: the VoiceChat component (token    *)
(* request, session open / close), the VoiceAssistantUI component mounted  *)
(* inside the session, and the VoiceSelector component mounted while the   *)
(* session is Connected, with the two data-channel receive handlers, the   *)
(* voice-change and preview timers and the localStorage preference.        *)
(*                                                                         *)
(* One action is one event of the browser event loop: a DOM event handler, *)
(* a promise continuation, a timer callback or an SDK event, followed by   *)
(* the React render and the effects that render schedules.                 *)
(*                                                                         *)
(* The SDK is the environment: it moves the connection state, delivers     *)
(* payloads to the "dataReceived" listeners while a connection exists      *)
(* (Connected and Reconnecting), settles every publishData call in a later *)
(* event, and may hand out no localParticipant, the case both components   *)
(* test for.  A handler that awaits is two actions: the part before the    *)
(* await and the continuation that runs when the promise settles.          *)
(*                                                                         *)
(* A component that unmounts takes its state with it: the continuations    *)
(* and timer callbacks it left behind then set state on nothing.  The      *)
(* model keeps what such a continuation still does outside the component   *)
(* (a publishData call of an unmounted selector still publishes) and drops *)
(* the rest (the timers of an unmounted selector, the calls pending when   *)
(* the session closes and the room with it).  The page (page.tsx) shows    *)
(* the Hero or VoiceChat; Back to Home unmounts VoiceChat in any state.    *)
(*                                                                         *)
(* The client's token request is answered by the token route (PostToken)   *)
(* under any configuration, by something in front of it, or not at all.    *)
(*                                                                         *)
(* The three route handlers of the server (token, chat init, chat          *)
(* message) are stateless; ServerSpec takes one request with what its      *)
(* environment holds (process.env, Math.random, the signing call, the      *)
(* backend's reply) and runs the handler on it.                            *)
(*                                                                         *)
(* Not modelled: isOpen, sessionTime, agentState and everything that only  *)
(* renders.                                                                *)
(***************************************************************************)
EXTENDS Integers, Sequences, FiniteSets, TLC

\* ------------------------------------------------------------- bounds

\* calls of publishData within one session, settled or not
MaxPublished == 2

\* token requests left outstanding by VoiceChat components that unmounted
MaxAbandoned == 1

\* resume() calls on audio contexts that have not settled
MaxResumes == 1

\* ---------------------------------------------------------- constants

\* null / undefined of a string-valued cell
NULL == "<null>"

\* a string is truthy unless it is null or empty
Truthy(s) == s # NULL /\ s # ""

\* VoiceSelector.tsx:18-79, the ids of the catalog in order
AVAILABLE_VOICES == <<"luna", "stella", "athena", "orion", "arcas">>

CatalogIds == {AVAILABLE_VOICES[i] : i \in 1..Len(AVAILABLE_VOICES)}

\* VoiceSelector.tsx:18-79, the name and the previewText of each entry
VoiceName ==
    [luna |-> "Luna", stella |-> "Stella", athena |-> "Athena",
     orion |-> "Orion", arcas |-> "Arcas"]

VoicePreviewText ==
    [luna |-> "Hello! I'm Luna, your professional AI assistant. How can I help you today?",
     stella |-> "Hi there! I'm Stella, and I'm excited to assist you with lots of positive energy!",
     athena |-> "Good day. I'm Athena, your professional business assistant. How may I assist you?",
     orion |-> "Hello. I'm Orion, your confident AI advisor. I'm here to help with any questions.",
     arcas |-> "Hey! I'm Arcas, your friendly AI assistant. What can I do for you today?"]

\* VoiceChat.tsx:197, useState("luna")
DefaultVoice == "luna"

\* ids an inbound response or a stored preference may carry: a catalog
\* entry and an id outside the catalog
InboundVoices == {"stella", "nova"}

\* the values typed into the name input: empty, white space only, a name
\* with white space before it
NameInputs == {<<>>, <<" ">>, <<" ", "A">>}

\* String.prototype.trim: strips leading and trailing white space
RECURSIVE TrimLeft(_)
TrimLeft(s) ==
    IF s # <<>> /\ Head(s) = " " THEN TrimLeft(Tail(s)) ELSE s

RECURSIVE TrimRight(_)
TrimRight(s) ==
    IF s # <<>> /\ s[Len(s)] = " " THEN TrimRight(SubSeq(s, 1, Len(s) - 1)) ELSE s

Trim(s) == TrimRight(TrimLeft(s))

\* error strings
ErrEnterName == "Please enter your name"
ErrNotOk == "Failed to get connection details"
ErrNetwork == "Failed to fetch"
ErrBody == "Unexpected end of JSON input"

\* ConnectionDetails: absent is <<>>, present is a one-element sequence
NoDetails == <<>>

\* the ConnectionDetails interface (VoiceChat.tsx:183-188)
ConnectionDetails(accessToken, url, roomName, identity) ==
    [accessToken |-> accessToken, url |-> url,
     roomName |-> roomName, identity |-> identity]

\* ------------------------------------------ the token route (POST /api/livekit)

\* Text is a sequence of pieces: a name is a sequence of characters, a
\* fixed literal of the source is one piece.

\* Math.random().toString(36).substring(7): from no character at all to a
\* few characters of [0-9a-z]
RandomSuffixes == {<<>>, <<"x", "9">>}

\* process.env values: undefined, the empty string, a value
UrlValues == {NULL, "", "wss://x"}
KeyValues == {NULL, "", "APIkey"}
SecretValues == {NULL, "", "secret"}

Envs == [url : UrlValues, key : KeyValues, secret : SecretValues]

\* The body of a request to the route.  json says what the body is:
\*   "none"    no body, or text that is not JSON
\*   "null"    the JSON text null
\*   "value"   JSON text that is neither null nor an object: a number, a
\*             string, a boolean or an array; destructuring it finds no
\*             field
\*   "object"  a JSON object; participantName is <<>> when the field is
\*             absent and <<name>> when it is there
TokenRequest(json, pn) == [json |-> json, participantName |-> pn]

\* the names a request may carry: the values of the name input and a name
\* as the client sends it, trimmed
RequestNames == NameInputs \cup {<<"A">>}

TokenRequests ==
    {TokenRequest("none", <<>>), TokenRequest("null", <<>>),
     TokenRequest("value", <<>>)}
        \cup {TokenRequest("object", pn) :
                pn \in {<<>>} \cup {<<n>> : n \in RequestNames}}

\* "const { participantName } = await request.json()" (part_000:6):
\* request.json() rejects when the body is not JSON, destructuring null
\* throws a TypeError
RequestJsonThrows(req) == req.json \in {"none", "null"}

\* part_000:9
RoomName(suffix) == <<"voice-chat-">> \o suffix

\* part_000:10-11, participantName || `user-${...}`: undefined and the
\* empty string are falsy, every other string is truthy
TokenIdentity(pn, suffix) ==
    IF pn # <<>> /\ pn[1] # <<>> THEN pn[1] ELSE <<"user-">> \o suffix

\* part_000:19-22, the names pushed on missing, in order
MissingVars(env) ==
    (IF ~Truthy(env.url) THEN <<"NEXT_PUBLIC_LIVEKIT_URL">> ELSE <<>>)
        \o (IF ~Truthy(env.key) THEN <<"NEXT_PUBLIC_LIVEKIT_API_KEY">> ELSE <<>>)
        \o (IF ~Truthy(env.secret) THEN <<"LIVEKIT_API_SECRET">> ELSE <<>>)

\* Array.prototype.join(", ")
RECURSIVE Join(_)
Join(names) ==
    IF Len(names) <= 1 THEN names
    ELSE <<Head(names), ", ">> \o Join(Tail(names))

\* part_000:26-33
ConfigMissingBody(missing) ==
    [error |-> "LiveKit configuration missing",
     details |-> <<"Missing environment variables: ">> \o Join(missing),
     hint |-> "Create .env.local file with required LiveKit configuration"]

\* the ttl option (part_000:43)
TokenTtl == "10m"

\* the grant with roomAdmin added
VideoGrant_Admin(roomName) ==
    [room |-> roomName, roomJoin |-> TRUE, canPublish |-> TRUE,
     canSubscribe |-> TRUE, canPublishData |-> TRUE,
     canUpdateOwnMetadata |-> TRUE, roomAdmin |-> TRUE]

\* part_000:47-54, the object passed to addGrant
VideoGrant(roomName) ==
    [room |-> roomName, roomJoin |-> TRUE, canPublish |-> TRUE,
     canSubscribe |-> TRUE, canPublishData |-> TRUE,
     canUpdateOwnMetadata |-> TRUE]

\* new AccessToken(apiKey, apiSecret, {identity, ttl}), addGrant and
\* toJwt (part_000:41-56): the claims of the signed token and the secret
\* that signs them
Jwt(apiKey, apiSecret, identity, roomName) ==
    [iss |-> apiKey, sub |-> identity, ttl |-> TokenTtl,
     video |-> VideoGrant(roomName), signedWith |-> apiSecret]

\* toJwt() resolves or rejects
Signings == {"resolves", "rejects"}

\* a catch clause that reports the cause
CaughtBody_WithCause == [error |-> "Failed to create access token", cause |-> "thrown"]

\* part_000:66-69
CaughtBody == [error |-> "Failed to create access token"]

\* NextResponse.json(body, {status}); the status is 200 when none is given
JsonResponse(status, body) == [status |-> status, body |-> body]

\* POST (part_000:4-71) for request req under configuration env, with the
\* two random suffixes drawn and the outcome of toJwt: the response, and
\* the tokens the call signed
PostToken(req, env, roomSuffix, userSuffix, signing) ==
    IF RequestJsonThrows(req)
    THEN [response |-> JsonResponse(500, CaughtBody), signed |-> <<>>]
    ELSE LET roomName == RoomName(roomSuffix)
             identity == TokenIdentity(req.participantName, userSuffix)
             missing == MissingVars(env)
         IN  IF missing # <<>>
             THEN [response |-> JsonResponse(500, ConfigMissingBody(missing)),
                   signed |-> <<>>]
             ELSE IF signing = "rejects"
             THEN [response |-> JsonResponse(500, CaughtBody), signed |-> <<>>]
             ELSE LET accessToken == Jwt(env.key, env.secret, identity, roomName)
                  IN  [response |->
                          JsonResponse(200, ConnectionDetails(accessToken, env.url,
                                                              roomName, identity)),
                       signed |-> <<accessToken>>]

\* ------------------------------------------------- data-channel payloads

\* An inbound payload is bytes; kind says what the bytes decode to:
\*   "object"    a JSON object with the fields type, success, currentVoice
\*   "null"      the JSON text null
\*   "number"    a JSON number
\*   "truncated" a JSON text cut short
\*   "text"      text that is not JSON
Obj(t, s, v) == [kind |-> "object", type |-> t, success |-> s, currentVoice |-> v]

NonObj(k) == [kind |-> k, type |-> "", success |-> FALSE, currentVoice |-> ""]

ResponsePayloads ==
    {Obj("voice_change_response", s, v) : s \in BOOLEAN, v \in InboundVoices}

MalformedPayloads == {NonObj("null"), NonObj("truncated"), NonObj("text")}

Payloads ==
    ResponsePayloads
        \cup {Obj("test_message", FALSE, ""), Obj("other", TRUE, "stella")}
        \cup MalformedPayloads \cup {NonObj("number")}

\* JSON.parse(new TextDecoder().decode(payload)): throws a SyntaxError on
\* text that is not JSON, returns the value otherwise
ParseThrows(p) == p.kind \in {"truncated", "text"}

\* message.type on the parsed value: a TypeError when the value is null,
\* undefined on a number, the field on an object
TypeReadThrows(p) == p.kind = "null"

MessageType(p) == IF p.kind = "object" THEN p.type ELSE "<undefined>"

VARIABLES
    \* the page (page.tsx:7): VoiceChat is mounted when TRUE, the Hero
    \* otherwise
    showVoiceChat,
    \* VoiceChat (VoiceChat.tsx:695-699)
    connectionDetails, isConnecting, participantName, error,
    \* the token request of the mounted VoiceChat that is in flight: <<>>
    \* or <<trimmed name>>
    fetchBody,
    \* the bodies of the token requests in flight whose VoiceChat has
    \* unmounted
    abandonedFetches,
    \* localStorage["preferred_voice"]
    preferredVoice,
    \* the session: LiveKitRoom's connection state, the handle that
    \* useLocalParticipant returns, VoiceAssistantUI's currentVoice and
    \* audioInitialized
    connectionState, hasLocalParticipant, currentVoice, audioInitialized,
    \* the number of resume() calls of the mounted VoiceAssistantUI that
    \* have not settled
    audioResumes,
    \* VoiceSelector (VoiceSelector.tsx:93-95), mounted while Connected
    isChanging, localCurrentVoice, previewingVoice,
    \* pending setTimeout callbacks of the mounted selector: the indexes in
    \* published of the voice_change messages whose 5 s timer is armed, and
    \* whether the 4 s preview timer is armed
    changeTimers, previewTimer,
    \* the messages published on the session's data channel (publishData
    \* resolved), in order
    published,
    \* the publishData calls of the session that have not settled, in the
    \* order of the calls: the message, and whether the selector that made
    \* the call is still mounted
    publishing,
    \* TRUE once an exception has escaped a handler
    uncaughtError,
    \* history: the event handled last, and the
    \* currentVoice of the success response received last in this session
    lastEvent, lastSuccess,
    \* the route handlers of the server, one request at a time: the request
    \* with what its environment holds, the response (<<>> until the
    \* handler has returned), the tokens signed and the requests sent to the
    \* backend while handling it
    srvIn, srvResponse, srvSigned, srvBackendRequests

vcVars == <<connectionDetails, isConnecting, participantName, error, fetchBody>>
sessVars == <<connectionState, hasLocalParticipant, currentVoice, audioInitialized>>
selVars == <<isChanging, localCurrentVoice, previewingVoice, changeTimers, previewTimer>>
histVars == <<lastEvent, lastSuccess>>
pageVars == <<showVoiceChat, abandonedFetches>>
asyncVars == <<audioResumes, publishing>>
clientVars == <<pageVars, vcVars, preferredVoice, sessVars, selVars, published, asyncVars,
                uncaughtError, histVars>>
srvVars == <<srvIn, srvResponse, srvSigned, srvBackendRequests>>
vars == <<clientVars, srvVars>>

\* record event e in the history
Log(e) == lastEvent' = e

\* the session branch of VoiceChat's render (VoiceChat.tsx:803, 1011-1058)
SessionOpen == connectionDetails # NoDetails

\* VoiceAssistantUI renders VoiceSelector in the Connected branch only
\* (VoiceChat.tsx:429, 470-476)
SelectorMounted == SessionOpen /\ connectionState = "Connected"

\* the isConnected prop (VoiceChat.tsx:473-475)
IsConnected == connectionState = "Connected"

\* no request at the server
NoRequest == [route |-> "none"]

ServerIdle ==
    /\ srvIn = NoRequest
    /\ srvResponse = <<>>
    /\ srvSigned = <<>>
    /\ srvBackendRequests = <<>>

\* the client before any event
ClientInit ==
    /\ showVoiceChat = FALSE
    /\ abandonedFetches = <<>>
    /\ audioResumes = 0
    /\ publishing = <<>>
    /\ connectionDetails = NoDetails
    /\ isConnecting = FALSE
    /\ participantName = <<>>
    /\ error = NULL
    /\ fetchBody = <<>>
    /\ preferredVoice \in {NULL} \cup InboundVoices
    /\ connectionState = "Disconnected"
    /\ hasLocalParticipant = FALSE
    /\ currentVoice = DefaultVoice
    /\ audioInitialized = FALSE
    /\ isChanging = FALSE
    /\ localCurrentVoice = NULL
    /\ previewingVoice = NULL
    /\ changeTimers = {}
    /\ previewTimer = FALSE
    /\ published = <<>>
    /\ uncaughtError = FALSE
    /\ lastEvent = "init"
    /\ lastSuccess = NULL

Init == ClientInit /\ ServerIdle

\* ------------------------------------------------------------ VoiceChat

\* the form rendered whether or not a session is open
FormRendered_Always == TRUE

\* the form branch of VoiceChat's render (VoiceChat.tsx:803-1010)
FormRendered == showVoiceChat /\ ~SessionOpen

\* onChange of the name input, which is rendered in the form branch and
\* disabled while isConnecting (VoiceChat.tsx:861-869)
SetParticipantName(n) ==
    /\ FormRendered
    /\ ~isConnecting
    /\ participantName' = n
    /\ Log("name")
    /\ UNCHANGED <<connectionDetails, isConnecting, error, fetchBody, preferredVoice,
                   sessVars, selVars, published, uncaughtError, lastSuccess>>
    /\ UNCHANGED <<pageVars, asyncVars, srvVars>>

\* the early return without trim()
NameIsBlank_NoTrim(n) == n = <<>>

\* connectToAgent's early return (VoiceChat.tsx:702)
NameIsBlank(n) == Trim(n) = <<>>

\* connectToAgent up to the await of fetch (VoiceChat.tsx:701-719). It is
\* called by the start button (enabled for a non-blank name) and by Enter
\* in the name input (for any name), both disabled while isConnecting.
ConnectToAgent ==
    /\ FormRendered
    /\ ~isConnecting
    /\ IF NameIsBlank(participantName)
       THEN /\ error' = ErrEnterName
            /\ Log("connect_rejected")
            /\ UNCHANGED <<isConnecting, fetchBody>>
       ELSE /\ isConnecting' = TRUE
            /\ error' = NULL
            /\ fetchBody' = <<Trim(participantName)>>
            /\ Log("connect_requested")
    /\ UNCHANGED <<connectionDetails, participantName, preferredVoice,
                   sessVars, selVars, published, uncaughtError, lastSuccess>>
    /\ UNCHANGED <<pageVars, asyncVars, srvVars>>

\* VoiceAssistantUI's mount: useState("luna") and the load effect
\* (VoiceChat.tsx:197, 205-211)
UIMountVoice(saved) == IF Truthy(saved) THEN saved ELSE DefaultVoice

\* what fetch("/api/livekit") settles with: a rejection, or a response
\* with a status and a body that response.json() can or cannot read
NetworkError == [kind |-> "network_error"]

HttpResponse(status, json, body) ==
    [kind |-> "response", status |-> status, json |-> json, body |-> body]

\* Response.ok
ResponseOk(r) == r.status \in 200..299

\* the body connectToAgent sends (VoiceChat.tsx:714-716)
ClientTokenRequest(name) == TokenRequest("object", <<name>>)

\* the random suffix drawn for the requests of the client; no code of the
\* client reads roomName or identity
SessionSuffix == <<"x", "9">>

\* the responses of the route to the request of the client
RouteResponses(name) ==
    {LET r == PostToken(ClientTokenRequest(name), env, SessionSuffix,
                        SessionSuffix, sg).response
     IN  HttpResponse(r.status, TRUE, r.body) : env \in Envs, sg \in Signings}

\* responses that do not come from the route: a gateway error page, and a
\* success status with a body that is not JSON
ForeignResponses ==
    {HttpResponse(502, FALSE, [text |-> "Bad Gateway"]),
     HttpResponse(200, FALSE, [text |-> ""])}

\* the message of the Error thrown for a response that is not ok
\* (VoiceChat.tsx:721-723)
ErrorOfResponse(outcome) == ErrNotOk

\* the message caught by connectToAgent (VoiceChat.tsx:721-729), NULL when
\* nothing is thrown
TokenError(outcome) ==
    IF outcome.kind = "network_error" THEN ErrNetwork
    ELSE IF ~ResponseOk(outcome) THEN ErrorOfResponse(outcome)
    ELSE IF ~outcome.json THEN ErrBody
    ELSE NULL

\* a continuation that leaves isConnecting alone when the request failed
IsConnectingAfter_StuckOnFailure(outcome) == TokenError(outcome) # NULL

\* the finally clause (VoiceChat.tsx:730-732)
IsConnectingAfter(outcome) == FALSE

\* a continuation that stores a token other than the one received
StoredDetails_OtherToken(body) ==
    <<[body EXCEPT !.accessToken = Jwt(NULL, NULL, <<>>, <<>>)]>>

\* setConnectionDetails(details) (VoiceChat.tsx:725-726)
StoredDetails(body) == <<body>>

\* the continuation of connectToAgent after fetch settles
\* (VoiceChat.tsx:721-732); on success the session branch mounts
\* LiveKitRoom and VoiceAssistantUI
TokenResponse(outcome) ==
    /\ fetchBody # <<>>
    /\ isConnecting' = IsConnectingAfter(outcome)
    /\ fetchBody' = <<>>
    /\ IF TokenError(outcome) = NULL
       THEN /\ connectionDetails' = StoredDetails(outcome.body)
            /\ connectionState' = "Disconnected"
            /\ hasLocalParticipant' \in BOOLEAN
            /\ currentVoice' = UIMountVoice(preferredVoice)
            /\ audioInitialized' = FALSE
            /\ Log("token_ok")
            /\ UNCHANGED error
       ELSE /\ error' = TokenError(outcome)
            /\ Log("token_failed")
            /\ UNCHANGED <<connectionDetails, sessVars>>
    /\ UNCHANGED <<participantName, preferredVoice, selVars, published, uncaughtError, lastSuccess>>
    /\ UNCHANGED <<pageVars, asyncVars, srvVars>>

\* what the request in flight can settle with
TokenOutcomes ==
    IF fetchBody = <<>> THEN {}
    ELSE {NetworkError} \cup RouteResponses(fetchBody[1]) \cup ForeignResponses

\* the props LiveKitRoom is rendered with (VoiceChat.tsx:1037-1042)
RoomProps ==
    [token |-> connectionDetails[1].accessToken,
     serverUrl |-> connectionDetails[1].url, connect |-> TRUE]

\* a disconnect that clears the name and keeps the connection details
DisconnectFromAgent_NameOnly ==
    /\ SessionOpen
    /\ participantName' = <<>>
    /\ Log("disconnect")
    /\ UNCHANGED <<connectionDetails, isConnecting, error, fetchBody, preferredVoice,
                   sessVars, selVars, published, uncaughtError, lastSuccess,
                   pageVars, asyncVars, srvVars>>

\* a disconnect that also clears the error
DisconnectFromAgent_ClearsError ==
    /\ SessionOpen
    /\ connectionDetails' = NoDetails
    /\ participantName' = <<>>
    /\ error' = NULL
    /\ connectionState' = "Disconnected"
    /\ hasLocalParticipant' = FALSE
    /\ currentVoice' = DefaultVoice
    /\ audioInitialized' = FALSE
    /\ isChanging' = FALSE
    /\ localCurrentVoice' = NULL
    /\ previewingVoice' = NULL
    /\ changeTimers' = {}
    /\ previewTimer' = FALSE
    /\ published' = <<>>
    /\ publishing' = <<>>
    /\ audioResumes' = 0
    /\ Log("disconnect")
    /\ lastSuccess' = NULL
    /\ UNCHANGED <<isConnecting, fetchBody, preferredVoice, uncaughtError>>
    /\ UNCHANGED <<pageVars, srvVars>>

\* disconnectFromAgent (VoiceChat.tsx:735-738); the session branch
\* unmounts with everything in it
DisconnectFromAgent ==
    /\ SessionOpen
    /\ connectionDetails' = NoDetails
    /\ participantName' = <<>>
    /\ connectionState' = "Disconnected"
    /\ hasLocalParticipant' = FALSE
    /\ currentVoice' = DefaultVoice
    /\ audioInitialized' = FALSE
    /\ isChanging' = FALSE
    /\ localCurrentVoice' = NULL
    /\ previewingVoice' = NULL
    /\ changeTimers' = {}
    /\ previewTimer' = FALSE
    /\ published' = <<>>
    /\ publishing' = <<>>
    /\ audioResumes' = 0
    /\ Log("disconnect")
    /\ lastSuccess' = NULL
    /\ UNCHANGED <<isConnecting, error, fetchBody, preferredVoice, uncaughtError>>
    /\ UNCHANGED <<pageVars, srvVars>>

\* the state of a VoiceChat that is not mounted: the initial values of its
\* state cells and of everything mounted in it
VoiceChatGone ==
    /\ connectionDetails' = NoDetails
    /\ isConnecting' = FALSE
    /\ participantName' = <<>>
    /\ error' = NULL
    /\ fetchBody' = <<>>
    /\ connectionState' = "Disconnected"
    /\ hasLocalParticipant' = FALSE
    /\ currentVoice' = DefaultVoice
    /\ audioInitialized' = FALSE
    /\ isChanging' = FALSE
    /\ localCurrentVoice' = NULL
    /\ previewingVoice' = NULL
    /\ changeTimers' = {}
    /\ previewTimer' = FALSE
    /\ published' = <<>>
    /\ publishing' = <<>>
    /\ audioResumes' = 0
    /\ lastSuccess' = NULL

\* the Back to Home button (VoiceChat.tsx:773-793), rendered in every
\* state of VoiceChat; onBack is setShowVoiceChat(false) (page.tsx:10), so
\* VoiceChat unmounts and a token request in flight is left without a
\* component
BackToHome ==
    /\ showVoiceChat
    /\ Len(abandonedFetches) + Len(fetchBody) <= MaxAbandoned
    /\ showVoiceChat' = FALSE
    /\ abandonedFetches' = abandonedFetches \o fetchBody
    /\ VoiceChatGone
    /\ Log("back")
    /\ UNCHANGED <<preferredVoice, uncaughtError, srvVars>>

\* the Hero's button (Hero.tsx:331, page.tsx:13): VoiceChat mounts with
\* the initial values of its state
NavigateToVoiceChat ==
    /\ ~showVoiceChat
    /\ showVoiceChat' = TRUE
    /\ Log("open")
    /\ UNCHANGED <<abandonedFetches, vcVars, preferredVoice, sessVars, selVars,
                   published, asyncVars, uncaughtError, lastSuccess, srvVars>>

\* the continuation of connectToAgent in a VoiceChat that has unmounted
\* (VoiceChat.tsx:721-732): its state updates reach no component
AbandonedTokenResponse ==
    /\ abandonedFetches # <<>>
    /\ abandonedFetches' = Tail(abandonedFetches)
    /\ UNCHANGED <<showVoiceChat, vcVars, preferredVoice, sessVars, selVars,
                   published, asyncVars, uncaughtError, histVars, srvVars>>

\* ------------------------------------------ the session's connection

\* VoiceSelector's mount: useState(currentVoice), the load effect and the
\* sync effect (VoiceSelector.tsx:94-112). The result is the pair
\* <<localCurrentVoice, currentVoice>> once the effects have settled.
SavedInCatalog(saved) == Truthy(saved) /\ saved \in CatalogIds

SyncLocal(cv, local) == IF Truthy(cv) /\ cv # local THEN cv ELSE local

\* a selector that starts from the default voice and has no sync effect
SelectorMountVoices_FromDefault(cv, saved) ==
    <<IF SavedInCatalog(saved) THEN saved ELSE DefaultVoice,
      IF SavedInCatalog(saved) THEN saved ELSE cv>>

SelectorMountVoices(cv, saved) ==
    LET local0 == cv
        local1 == IF SavedInCatalog(saved) THEN saved ELSE local0
        cv1 == IF SavedInCatalog(saved) THEN saved ELSE cv
    IN  <<SyncLocal(cv1, local1), cv1>>

\* Array.prototype.find on the catalog ids: the index of the first entry
\* with id v, 0 when there is none
FindVoice(v) ==
    LET hits == {i \in 1..Len(AVAILABLE_VOICES) : AVAILABLE_VOICES[i] = v}
    IN  IF hits = {} THEN 0 ELSE CHOOSE i \in hits : \A j \in hits : i <= j

\* the entry displayed without the fallback
CurrentVoiceData_NoFallback(local) == local

\* currentVoiceData (VoiceSelector.tsx:233-235), by id: the entry found,
\* or else the first entry of the catalog
CurrentVoiceData(local) ==
    IF FindVoice(local) # 0 THEN AVAILABLE_VOICES[FindVoice(local)]
    ELSE AVAILABLE_VOICES[1]

\* the selector's state when it is not mounted
SelectorGone ==
    /\ isChanging' = FALSE
    /\ localCurrentVoice' = NULL
    /\ previewingVoice' = NULL
    /\ changeTimers' = {}
    /\ previewTimer' = FALSE

\* What the browser does with the audio output context at one attempt:
\* webkit is whether "webkitAudioContext" is in window; context is what
\* constructing the context comes to:
\*   "throws"     there is no constructor, or the constructor throws
\*   "running"    the new context is not suspended
\*   "suspended"  the new context is suspended
AudioAttempts == [webkit : BOOLEAN, context : {"throws", "running", "suspended"}]

\* an attempt that sets audioInitialized whatever comes of it
InitializeAudio_MarksAlways(a) == <<TRUE, FALSE>>

\* initializeAudio (VoiceChat.tsx:248-265) up to its await, from
\* audioInitialized false: <<the new audioInitialized, whether it awaits
\* resume()>>
InitializeAudio(a) ==
    IF ~a.webkit \/ a.context = "throws" THEN <<FALSE, FALSE>>
    ELSE IF a.context = "suspended" THEN <<FALSE, TRUE>>
    ELSE <<TRUE, FALSE>>

\* the effect of VoiceChat.tsx:247-270 at a render in state cs
AudioEffect(cs, initialized, a) ==
    IF cs = "Connected" /\ ~initialized THEN InitializeAudio(a)
    ELSE <<initialized, FALSE>>

\* the attempts the effect can make at a render in state cs: it makes none
\* unless its body runs
NoAttempt == [webkit |-> FALSE, context |-> "throws"]

AudioAttemptsAt(cs, initialized) ==
    IF cs = "Connected" /\ ~initialized THEN AudioAttempts ELSE {NoAttempt}

\* onClick of the Enable Audio button (VoiceChat.tsx:582-596) up to its
\* await: whether it awaits resume(), which it calls on every context it
\* could construct
EnableAudioClick(a) == a.context # "throws"

\* resume() settles: resolved or rejected
ResumeOutcomes == {"resolved", "rejected"}

\* the continuation of either await of resume() (VoiceChat.tsx:257-259,
\* 587-588): the new audioInitialized
AfterResume(initialized, outcome) == initialized \/ outcome = "resolved"

\* the connection states the session component moves through
\* (VoiceChat.tsx:192, 294-322): the client only observes them
RoomTransitions ==
    {<<"Disconnected", "Connecting">>, <<"Connecting", "Connected">>,
     <<"Connecting", "Disconnected">>, <<"Connected", "Reconnecting">>,
     <<"Reconnecting", "Connected">>, <<"Connected", "Disconnected">>,
     <<"Reconnecting", "Disconnected">>}

\* a change of useConnectionState() and the render that follows: entering
\* Connected mounts a fresh VoiceSelector, leaving it unmounts the selector
\* (VoiceChat.tsx:429-478), whose pending timers and continuations then
\* act on no component; the audio effect runs with attempt a
RoomStateChange(to, a) ==
    /\ SessionOpen
    /\ <<connectionState, to>> \in RoomTransitions
    /\ connectionState' = to
    /\ LET e == AudioEffect(to, audioInitialized, a)
       IN  /\ audioInitialized' = e[1]
           /\ e[2] => audioResumes < MaxResumes
           /\ audioResumes' = IF e[2] THEN audioResumes + 1 ELSE audioResumes
    /\ publishing' = [i \in DOMAIN publishing |-> [publishing[i] EXCEPT !.live = FALSE]]
    /\ IF to = "Connected"
       THEN LET m == SelectorMountVoices(currentVoice, preferredVoice)
            IN  /\ localCurrentVoice' = m[1]
                /\ currentVoice' = m[2]
                /\ isChanging' = FALSE
                /\ previewingVoice' = NULL
                /\ changeTimers' = {}
                /\ previewTimer' = FALSE
       ELSE /\ SelectorGone
            /\ UNCHANGED currentVoice
    /\ Log("room_" \o to)
    /\ UNCHANGED <<vcVars, preferredVoice, hasLocalParticipant, published, uncaughtError, lastSuccess>>
    /\ UNCHANGED <<pageVars, srvVars>>

ConnectionStates == {"Disconnected", "Connecting", "Connected", "Reconnecting"}

\* LiveKitRoom's onError (VoiceChat.tsx:1043-1046)
ErrRoom == "Connection error: failed"

RoomError ==
    /\ SessionOpen
    /\ error' = ErrRoom
    /\ Log("room_error")
    /\ UNCHANGED <<connectionDetails, isConnecting, participantName, fetchBody,
                   preferredVoice, sessVars, selVars, published, uncaughtError, lastSuccess>>
    /\ UNCHANGED <<pageVars, asyncVars, srvVars>>

\* the Enable Audio button is rendered (VoiceChat.tsx:429, 580)
EnableAudioOffered == SessionOpen /\ connectionState = "Connected" /\ ~audioInitialized

\* a click on Enable Audio with attempt a, up to the await of resume()
EnableAudio(a) ==
    /\ EnableAudioOffered
    /\ EnableAudioClick(a) => audioResumes < MaxResumes
    /\ audioResumes' = IF EnableAudioClick(a) THEN audioResumes + 1 ELSE audioResumes
    /\ Log("enable_audio")
    /\ UNCHANGED <<vcVars, preferredVoice, sessVars, selVars, published, publishing,
                   uncaughtError, lastSuccess>>
    /\ UNCHANGED <<pageVars, srvVars>>

\* a pending resume() settles and the continuation of initializeAudio or
\* of the click runs (VoiceChat.tsx:257-263, 587-592)
ResumeSettles(outcome) ==
    /\ audioResumes > 0
    /\ audioResumes' = audioResumes - 1
    /\ audioInitialized' = AfterResume(audioInitialized, outcome)
    /\ Log("resume_" \o outcome)
    /\ UNCHANGED <<vcVars, preferredVoice, connectionState, hasLocalParticipant,
                   currentVoice, selVars, published, publishing, uncaughtError, lastSuccess>>
    /\ UNCHANGED <<pageVars, srvVars>>

\* -------------------------------------------- data-channel receive

\* what the try block of either handler does with a payload
\* (VoiceChat.tsx:218-236, VoiceSelector.tsx:119-146): "caught" when the
\* parse or the read of message.type throws inside the try, "handled" when
\* the body runs to its end; "thrown" would be an exception that escapes
BodyThrows(p) == ParseThrows(p) \/ TypeReadThrows(p)

\* a try block that ends after JSON.parse
TryOutcome_ParseOnly(p) ==
    IF ParseThrows(p) THEN "caught"
    ELSE IF TypeReadThrows(p) THEN "thrown" ELSE "handled"

TryOutcome(p) == IF BodyThrows(p) THEN "caught" ELSE "handled"

IsResponse(p) ==
    TryOutcome(p) = "handled" /\ MessageType(p) = "voice_change_response"

\* VoiceAssistantUI's handleDataReceived (VoiceChat.tsx:217-237)
UIOnData(p, cv) ==
    IF IsResponse(p) /\ p.success THEN p.currentVoice ELSE cv

\* the handler without the test of message.success
SelectorOnData_AnyResponse(p, busy, local, saved, cv) ==
    IF IsResponse(p)
    THEN <<FALSE, p.currentVoice, p.currentVoice, p.currentVoice>>
    ELSE <<busy, local, saved, cv>>

\* the handler applying a success response only while a change is in flight
SelectorOnData_OnlyWhenBusy(p, busy, local, saved, cv) ==
    IF IsResponse(p)
    THEN IF p.success /\ busy
         THEN <<FALSE, p.currentVoice, p.currentVoice, p.currentVoice>>
         ELSE <<FALSE, local, saved, cv>>
    ELSE <<busy, local, saved, cv>>

\* the handler persisting the response's currentVoice before the test of
\* message.success
SelectorOnData_PersistsFirst(p, busy, local, saved, cv) ==
    IF IsResponse(p)
    THEN IF p.success
         THEN <<FALSE, p.currentVoice, p.currentVoice, p.currentVoice>>
         ELSE <<FALSE, local, p.currentVoice, cv>>
    ELSE <<busy, local, saved, cv>>

\* VoiceSelector's handleDataReceived (VoiceSelector.tsx:118-147), run on
\* isChanging, localCurrentVoice, preferred_voice and the parent's
\* currentVoice (set through onVoiceChange): the new values of the four
SelectorOnData(p, busy, local, saved, cv) ==
    IF IsResponse(p)
    THEN IF p.success
         THEN <<FALSE, p.currentVoice, p.currentVoice, p.currentVoice>>
         ELSE <<FALSE, local, saved, cv>>
    ELSE <<busy, local, saved, cv>>

\* a label for the event
ReceiveLabel(p) ==
    IF TryOutcome(p) = "caught" THEN "recv_malformed"
    ELSE IF IsResponse(p)
         THEN (IF p.success THEN "recv_success" ELSE "recv_failure")
         ELSE "recv_other"

\* a payload arrives on the data channel of an established connection:
\* localParticipant's "dataReceived" listeners run, VoiceAssistantUI's
\* first and then VoiceSelector's when the selector is mounted
\* (VoiceChat.tsx:214-245, VoiceSelector.tsx:115-155)
Receive(p) ==
    /\ SessionOpen
    /\ hasLocalParticipant
    /\ connectionState \in {"Connected", "Reconnecting"}
    /\ uncaughtError' = (uncaughtError \/ TryOutcome(p) = "thrown")
    /\ IF SelectorMounted
       THEN LET r == SelectorOnData(p, isChanging, localCurrentVoice, preferredVoice,
                                    UIOnData(p, currentVoice))
            IN  /\ isChanging' = r[1]
                /\ localCurrentVoice' = SyncLocal(r[4], r[2])
                /\ preferredVoice' = r[3]
                /\ currentVoice' = r[4]
       ELSE /\ currentVoice' = UIOnData(p, currentVoice)
            /\ UNCHANGED <<isChanging, localCurrentVoice, preferredVoice>>
    /\ Log(ReceiveLabel(p))
    /\ lastSuccess' = IF IsResponse(p) /\ p.success THEN p.currentVoice ELSE lastSuccess
    /\ UNCHANGED <<vcVars, connectionState, hasLocalParticipant, audioInitialized,
                   previewingVoice, changeTimers, previewTimer, published>>
    /\ UNCHANGED <<pageVars, asyncVars, srvVars>>

\* --------------------------------------------------- VoiceSelector

VoiceChangeMessage(v) == [type |-> "voice_change", voiceId |-> v]

\* a || b on strings
OrElse(a, b) == IF Truthy(a) THEN a ELSE b

\* VoiceSelector.tsx:208-212, for a voice of the catalog
VoicePreviewMessage(v) ==
    [type |-> "voice_preview", voiceId |-> v,
     previewText |-> OrElse(VoicePreviewText[v], "Hello, I'm " \o VoiceName[v] \o ".")]

\* the buttons of the panel that are pressed (VoiceSelector.tsx:357-362,
\* 411-413): the default voice and another one for a selection, a third
\* for a preview
SelectInputs == {"luna", "stella"}

PreviewInputs == {"athena"}

\* the guard without the test of isChanging
VoiceChangeAccepted_NoBusyTest(v) ==
    IsConnected /\ v # localCurrentVoice

\* handleVoiceChange's guard (VoiceSelector.tsx:159): TRUE when the
\* selection goes on
VoiceChangeAccepted(v) ==
    IsConnected /\ ~isChanging /\ v # localCurrentVoice

\* localParticipant.publishData settles: resolved or rejected
PublishOutcomes == {"resolved", "rejected"}

\* a publishData call that has not settled
PendingPublish(m) == [msg |-> m, live |-> TRUE]

\* the calls made so far in the session
PublishCalls == Len(published) + Len(publishing)

\* sequence q without its i-th element
RemoveAt(q, i) == SubSeq(q, 1, i - 1) \o SubSeq(q, i + 1, Len(q))

\* a selection that shows the selected voice at once
VoiceAfterSelect_Optimistic(v, local) == v

\* localCurrentVoice after an accepted selection of v: handleVoiceChange
\* (VoiceSelector.tsx:157-193) does not set it
VoiceAfterSelect(v, local) == local

\* handleVoiceChange after its guard and up to its await
\* (VoiceSelector.tsx:161-178): <<isChanging, whether publishData is
\* called>>
VoiceChangeEffect(hasHandle) == <<TRUE, hasHandle>>

\* a selection of voice v in the mounted selector, up to the await of
\* publishData
HandleVoiceChange(v) ==
    /\ SelectorMounted
    /\ IF ~VoiceChangeAccepted(v)
       THEN /\ Log("select_ignored")
            /\ UNCHANGED <<isChanging, localCurrentVoice, publishing>>
       ELSE LET e == VoiceChangeEffect(hasLocalParticipant)
            IN  /\ isChanging' = e[1]
                /\ localCurrentVoice' = VoiceAfterSelect(v, localCurrentVoice)
                /\ e[2] => PublishCalls < MaxPublished
                /\ publishing' = IF e[2]
                                 THEN Append(publishing, PendingPublish(VoiceChangeMessage(v)))
                                 ELSE publishing
                /\ Log(IF e[2] THEN "select_requested" ELSE "select_no_handle")
    /\ UNCHANGED <<vcVars, preferredVoice, sessVars, previewingVoice, changeTimers,
                   previewTimer, published, audioResumes, uncaughtError, lastSuccess>>
    /\ UNCHANGED <<pageVars, srvVars>>

\* a continuation that publishes again when the call was rejected
VoiceChangeSettled_RetriesPublish(outcome) ==
    IF outcome = "resolved" THEN <<FALSE, TRUE, TRUE>> ELSE <<TRUE, TRUE, FALSE>>

\* the continuation of handleVoiceChange after publishData settles
\* (VoiceSelector.tsx:180-190): <<setIsChanging(false) is called, the
\* message is published, the 5 s timer is armed>>
VoiceChangeSettled(outcome) ==
    IF outcome = "resolved" THEN <<FALSE, TRUE, TRUE>> ELSE <<TRUE, FALSE, FALSE>>

\* the continuation of handleVoicePreview after publishData settles
\* (VoiceSelector.tsx:219-228): <<setPreviewingVoice(null) is called, the
\* message is published, the 4 s timer is armed>>
VoicePreviewSettled(outcome) ==
    IF outcome = "resolved" THEN <<FALSE, TRUE, TRUE>> ELSE <<TRUE, FALSE, FALSE>>

\* a label for the event
SettleLabel(m, outcome) ==
    (IF m.type = "voice_change" THEN "select" ELSE "preview")
        \o (IF outcome = "resolved" THEN "_published" ELSE "_publish_failed")

\* the i-th pending publishData call settles and the continuation of the
\* handler that made it runs; the state updates and the timer of a
\* selector that has unmounted reach no component
PublishSettles(i, outcome) ==
    /\ i \in 1..Len(publishing)
    /\ LET call == publishing[i]
           e == IF call.msg.type = "voice_change" THEN VoiceChangeSettled(outcome)
                ELSE VoicePreviewSettled(outcome)
           change == call.live /\ call.msg.type = "voice_change"
           preview == call.live /\ call.msg.type = "voice_preview"
       IN  /\ publishing' = RemoveAt(publishing, i)
           /\ published' = IF e[2] THEN Append(published, call.msg) ELSE published
           /\ isChanging' = IF change /\ e[1] THEN FALSE ELSE isChanging
           /\ changeTimers' = IF change /\ e[3] THEN changeTimers \cup {Len(published) + 1}
                              ELSE changeTimers
           /\ previewingVoice' = IF preview /\ e[1] THEN NULL ELSE previewingVoice
           /\ previewTimer' = IF preview /\ e[3] THEN TRUE ELSE previewTimer
           /\ Log(SettleLabel(call.msg, outcome))
    /\ UNCHANGED <<vcVars, preferredVoice, sessVars, localCurrentVoice, audioResumes,
                   uncaughtError, lastSuccess>>
    /\ UNCHANGED <<pageVars, srvVars>>

\* the callback of a 5 s timer (VoiceSelector.tsx:183-185); timers of
\* equal delay fire in the order they were armed
ChangeTimerFires ==
    /\ SelectorMounted
    /\ changeTimers # {}
    /\ LET t == CHOOSE x \in changeTimers : \A y \in changeTimers : x <= y
       IN  changeTimers' = changeTimers \ {t}
    /\ isChanging' = FALSE
    /\ Log("change_timer")
    /\ UNCHANGED <<vcVars, preferredVoice, sessVars, localCurrentVoice,
                   previewingVoice, previewTimer, published, uncaughtError, lastSuccess>>
    /\ UNCHANGED <<pageVars, asyncVars, srvVars>>

\* handleVoicePreview's guard (VoiceSelector.tsx:197)
VoicePreviewAccepted == IsConnected /\ previewingVoice = NULL

\* handleVoicePreview after its guard and up to its await
\* (VoiceSelector.tsx:199-217): <<previewingVoice, whether publishData is
\* called>>
VoicePreviewEffect(v, hasHandle) == <<v, v \in CatalogIds /\ hasHandle>>

\* a preview of voice v in the mounted selector, up to the await of
\* publishData
HandleVoicePreview(v) ==
    /\ SelectorMounted
    /\ IF ~VoicePreviewAccepted
       THEN /\ Log("preview_ignored")
            /\ UNCHANGED <<previewingVoice, publishing>>
       ELSE LET e == VoicePreviewEffect(v, hasLocalParticipant)
            IN  /\ previewingVoice' = e[1]
                /\ e[2] => PublishCalls < MaxPublished
                /\ publishing' = IF e[2]
                                 THEN Append(publishing, PendingPublish(VoicePreviewMessage(v)))
                                 ELSE publishing
                /\ Log(IF e[2] THEN "preview_requested" ELSE "preview_no_handle")
    /\ UNCHANGED <<vcVars, preferredVoice, sessVars, isChanging, localCurrentVoice,
                   changeTimers, previewTimer, published, audioResumes, uncaughtError,
                   lastSuccess>>
    /\ UNCHANGED <<pageVars, srvVars>>

\* the callback of the 4 s timer (VoiceSelector.tsx:222-224)
PreviewTimerFires ==
    /\ SelectorMounted
    /\ previewTimer
    /\ previewTimer' = FALSE
    /\ previewingVoice' = NULL
    /\ Log("preview_timer")
    /\ UNCHANGED <<vcVars, preferredVoice, sessVars, isChanging, localCurrentVoice,
                   changeTimers, published, uncaughtError, lastSuccess>>
    /\ UNCHANGED <<pageVars, asyncVars, srvVars>>

Next ==
    \/ \E n \in NameInputs : SetParticipantName(n)
    \/ ConnectToAgent
    \/ \E o \in TokenOutcomes : TokenResponse(o)
    \/ DisconnectFromAgent
    \/ \E to \in ConnectionStates :
          \E a \in AudioAttemptsAt(to, audioInitialized) : RoomStateChange(to, a)
    \/ \E a \in AudioAttempts : EnableAudio(a)
    \/ \E o \in ResumeOutcomes : ResumeSettles(o)
    \/ RoomError
    \/ \E p \in Payloads : Receive(p)
    \/ \E v \in SelectInputs : HandleVoiceChange(v)
    \/ \E v \in PreviewInputs : HandleVoicePreview(v)
    \/ \E i \in 1..MaxPublished, o \in PublishOutcomes : PublishSettles(i, o)
    \/ ChangeTimerFires
    \/ PreviewTimerFires
    \/ BackToHome
    \/ NavigateToVoiceChat
    \/ AbandonedTokenResponse

Spec == Init /\ [][Next]_vars

\* the browser runs the callback of every armed timer, and the SDK
\* settles every publishData call, each of them and not only the latest
FairSpec ==
    /\ Spec
    /\ WF_vars(ChangeTimerFires)
    /\ WF_vars(PreviewTimerFires)
    /\ \A i \in 1..MaxPublished :
           WF_vars(\E o \in PublishOutcomes : PublishSettles(i, o))

\* ------------------------------------------------- the chat proxy routes

\* what fetch to the backend settles with: a rejection, or a response with
\* a status and a body that response.json() can or cannot read
BackendUnreachable == [kind |-> "unreachable"]

BackendReplies ==
    {BackendUnreachable,
     HttpResponse(200, TRUE, [sessionId |-> "s1"]),
     HttpResponse(201, TRUE, [response |-> "hello", error |-> "none"]),
     HttpResponse(200, FALSE, [text |-> "<html>"]),
     HttpResponse(500, TRUE, [detail |-> "backend failure"]),
     HttpResponse(404, FALSE, [text |-> "Not Found"])}

\* The body of a request to the message route, of the same kinds as the
\* body of a token request; message and sessionId are <<>> when the field
\* is absent and <<value>> when it is there
MessageRequest(json, message, sessionId) ==
    [json |-> json, message |-> message, sessionId |-> sessionId]

MessageRequests ==
    {MessageRequest("none", <<>>, <<>>), MessageRequest("null", <<>>, <<>>),
     MessageRequest("value", <<>>, <<>>)}
        \cup {MessageRequest("object", m, sid) :
                m \in {<<>>, <<"hi">>}, sid \in {<<>>, <<"s1">>}}

\* JSON.stringify({ message, sessionId }) (message/route.ts:12): a field
\* that is undefined is left out
ForwardedBody(req) ==
    [f \in {g \in {"message", "sessionId"} : req[g] # <<>>} |-> req[f][1]]

BackendRequest(path, body) ==
    [url |-> "http://localhost:8000" \o path, method |-> "POST", body |-> body]

\* the fixed error messages (init/route.ts:22, message/route.ts:25)
ErrInit == "Failed to initialize chat"
ErrMessage == "Failed to send message"

\* a reply handling that passes the body of a failed backend reply through
ProxyReply_LeaksBackend(backend, errorMessage) ==
    IF backend.kind = "unreachable"
    THEN JsonResponse(500, [error |-> errorMessage])
    ELSE IF ~backend.json THEN JsonResponse(500, [error |-> errorMessage])
    ELSE JsonResponse(IF ResponseOk(backend) THEN 200 ELSE 500, backend.body)

\* from the settling of fetch to the return (init/route.ts:11-25,
\* message/route.ts:15-28): a rejection, a status that is not ok and a body
\* that is not JSON all end in the catch clause
ProxyReply(backend, errorMessage) ==
    IF backend.kind = "unreachable" \/ ~ResponseOk(backend) \/ ~backend.json
    THEN JsonResponse(500, [error |-> errorMessage])
    ELSE JsonResponse(200, backend.body)

\* POST of the init route (init/route.ts:3-26): the response and the
\* requests sent to the backend
ProxyInit(backend) ==
    [response |-> ProxyReply(backend, ErrInit),
     backendRequests |-> <<BackendRequest("/api/chat/init", <<>>)>>]

\* POST of the message route (message/route.ts:3-29)
ProxyMessage(req, backend) ==
    IF RequestJsonThrows(req)
    THEN [response |-> JsonResponse(500, [error |-> ErrMessage]),
          backendRequests |-> <<>>]
    ELSE [response |-> ProxyReply(backend, ErrMessage),
          backendRequests |->
              <<BackendRequest("/api/chat/message", <<ForwardedBody(req)>>)>>]

\* ------------------------------------------------ the server, by request

TokenInputs ==
    [route : {"token"}, request : TokenRequests, env : Envs,
     roomSuffix : RandomSuffixes, userSuffix : RandomSuffixes,
     signing : Signings]

InitInputs == [route : {"init"}, backend : BackendReplies]

MessageInputs ==
    [route : {"message"}, request : MessageRequests, backend : BackendReplies]

\* one request arrives at one of the three routes
ServerInit ==
    /\ ClientInit
    /\ preferredVoice = NULL
    /\ srvIn \in TokenInputs \cup InitInputs \cup MessageInputs
    /\ srvResponse = <<>>
    /\ srvSigned = <<>>
    /\ srvBackendRequests = <<>>

\* the token route handles the request (part_000:4-71)
PostLivekit ==
    /\ srvIn.route = "token"
    /\ srvResponse = <<>>
    /\ LET r == PostToken(srvIn.request, srvIn.env, srvIn.roomSuffix,
                          srvIn.userSuffix, srvIn.signing)
       IN  /\ srvResponse' = <<r.response>>
           /\ srvSigned' = r.signed
    /\ UNCHANGED <<srvIn, srvBackendRequests, clientVars>>

\* the init route handles the request (init/route.ts:3-26)
PostChatInit ==
    /\ srvIn.route = "init"
    /\ srvResponse = <<>>
    /\ LET r == ProxyInit(srvIn.backend)
       IN  /\ srvResponse' = <<r.response>>
           /\ srvBackendRequests' = r.backendRequests
    /\ UNCHANGED <<srvIn, srvSigned, clientVars>>

\* the message route handles the request (message/route.ts:3-29)
PostChatMessage ==
    /\ srvIn.route = "message"
    /\ srvResponse = <<>>
    /\ LET r == ProxyMessage(srvIn.request, srvIn.backend)
       IN  /\ srvResponse' = <<r.response>>
           /\ srvBackendRequests' = r.backendRequests
    /\ UNCHANGED <<srvIn, srvSigned, clientVars>>

ServerNext == PostLivekit \/ PostChatInit \/ PostChatMessage

ServerSpec == ServerInit /\ [][ServerNext]_vars

\* ------------------------------------------------------------- claims

SuccessResponses == {p \in ResponsePayloads : p.success}

FailureResponses == {p \in ResponsePayloads : ~p.success}

\* C1 as stated: a selection of voice v made while isChanging is true, or
\* with v the current voice, or while not connected, publishes nothing and
\* leaves isChanging, the current voice and the persisted preference as
\* they were; two selections with no response and no timer expiry between
\* them publish exactly one message: the accepted one makes its call of
\* publishData, and isChanging, which has the other ignored, becomes false
\* again only when a response is received or a timer expires.
C1_TwoSelectionsOneMessage ==
    [][/\ \A v \in SelectInputs :
             /\ (HandleVoiceChange(v)
                   /\ (isChanging \/ v = localCurrentVoice \/ ~IsConnected))
                => UNCHANGED <<published, publishing, isChanging, changeTimers,
                               currentVoice, localCurrentVoice, preferredVoice>>
             /\ (HandleVoiceChange(v)
                   /\ ~(isChanging \/ v = localCurrentVoice \/ ~IsConnected))
                => /\ isChanging'
                   /\ publishing' =
                         Append(publishing, PendingPublish(VoiceChangeMessage(v)))
       /\ (isChanging /\ ~isChanging')
             => lastEvent' \in {"recv_success", "recv_failure", "change_timer"}]_vars

\* C1, amended: a selection of voice v made while isChanging is true, or
\* with v the current voice, or while not connected, calls publishData for
\* nothing, publishes nothing and leaves isChanging, the current voice and
\* the persisted preference as they were.  An accepted selection sets
\* isChanging and makes one call of publishData when there is a local
\* participant handle and none when there is not, and isChanging becomes
\* false again only when a response is received, a timer expires, the call
\* is rejected or the selector unmounts.  So of two selections with none of
\* these between them the second is ignored when the first was accepted:
\* the two make at most one call and publish at most one message.
C1_SelectionIgnored ==
    [][/\ \A v \in SelectInputs :
             /\ (HandleVoiceChange(v)
                   /\ (isChanging \/ v = localCurrentVoice \/ ~IsConnected))
                => UNCHANGED <<published, publishing, isChanging, changeTimers,
                               currentVoice, localCurrentVoice, preferredVoice>>
             /\ (HandleVoiceChange(v)
                   /\ ~(isChanging \/ v = localCurrentVoice \/ ~IsConnected))
                => /\ isChanging'
                   /\ published' = published
                   /\ publishing' =
                         IF hasLocalParticipant
                         THEN Append(publishing, PendingPublish(VoiceChangeMessage(v)))
                         ELSE publishing
             /\ (HandleVoiceChange(v)
                   /\ lastEvent \in {"select_requested", "select_no_handle"})
                => (publishing' = publishing /\ published' = published)
       /\ (isChanging /\ ~isChanging')
             => \/ lastEvent' \in {"recv_success", "recv_failure", "change_timer",
                                   "select_publish_failed"}
                \/ ~SelectorMounted'
       /\ (published' # published /\ SessionOpen')
             => Len(published') + Len(publishing') = Len(published) + Len(publishing)]_vars

\* a second selection was ignored while the call of the first is pending
C1_Witness ==
    /\ lastEvent = "select_ignored"
    /\ isChanging
    /\ published = <<>>
    /\ Len(publishing) = 1
    /\ publishing[1].msg.type = "voice_change"

\* C2 as stated: a success response handled in any connection state of an
\* open session leaves the current voice and the persisted preference equal
\* to its currentVoice.
C2_SuccessAppliedInEveryState ==
    [][\A p \in SuccessResponses :
          Receive(p) => /\ currentVoice' = p.currentVoice
                        /\ preferredVoice' = p.currentVoice]_vars

\* C3 as stated: within a session, once a success response has been
\* received, the current voice is the currentVoice of the success response
\* received last, whatever selections, timer expiries and connection-state
\* changes followed it.
C3_LastSuccessWins ==
    (SessionOpen /\ lastSuccess # NULL) => currentVoice = lastSuccess

\* C4: a response with success=false leaves currentVoice, localCurrentVoice
\* and the persisted preference as they were.
C4_FailureLeavesVoice ==
    [][\A p \in FailureResponses :
          Receive(p) => UNCHANGED <<currentVoice, localCurrentVoice, preferredVoice>>]_vars

\* a failure response answered a published request: busy cleared, the
\* voices and the preference still differ from the response's currentVoice
C4_Witness ==
    /\ lastEvent = "recv_failure"
    /\ published = <<VoiceChangeMessage("stella")>>
    /\ changeTimers = {1}
    /\ SelectorMounted
    /\ ~isChanging
    /\ currentVoice = DefaultVoice
    /\ localCurrentVoice = DefaultVoice
    /\ preferredVoice = NULL

\* C5: a payload that is not a JSON object (truncated, not JSON, null)
\* throws out of neither handler and leaves the current voice, the
\* preference, isChanging and previewingVoice as they were; a success
\* response that comes right after it is applied.
C5_MalformedDropped ==
    [][/\ \A p \in MalformedPayloads :
             Receive(p) => /\ ~uncaughtError'
                           /\ UNCHANGED <<currentVoice, localCurrentVoice, preferredVoice,
                                          isChanging, previewingVoice>>
       /\ \A q \in SuccessResponses :
             (lastEvent = "recv_malformed" /\ Receive(q))
                => (~uncaughtError' /\ currentVoice' = q.currentVoice)]_vars

\* a malformed payload was handled in a mounted selector with a change and
\* a preview in flight, and a success response can be received next
C5_Witness ==
    /\ lastEvent = "recv_malformed"
    /\ SelectorMounted
    /\ isChanging
    /\ previewingVoice # NULL
    /\ ~uncaughtError
    /\ \A q \in SuccessResponses : ENABLED Receive(q)

\* C6 as stated: whenever isChanging is true it is false again later, and
\* no exception escapes, in every state in which a selection is accepted.
C6_BusyEventuallyClears ==
    /\ [](isChanging => <>(~isChanging))
    /\ [](~uncaughtError)

\* C7: the 5 s timer's callback changes nothing but the busy flag, and a
\* success response handled by the mounted selector sets the current voice
\* and the persisted preference to its currentVoice whether isChanging is
\* still true or the timer has cleared it.
C7_LateSuccessApplied ==
    [][/\ ChangeTimerFires
          => (~isChanging' /\ UNCHANGED <<currentVoice, localCurrentVoice, preferredVoice,
                                          previewingVoice, published, connectionState>>)
       /\ \A p \in SuccessResponses :
             (SelectorMounted /\ Receive(p))
                => /\ currentVoice' = p.currentVoice
                   /\ localCurrentVoice' = p.currentVoice
                   /\ preferredVoice' = p.currentVoice]_vars

\* the timer of the only request has fired, no success response having
\* come, and one can be received
C7_Witness ==
    /\ lastEvent = "change_timer"
    /\ lastSuccess = NULL
    /\ Len(published) = 1
    /\ publishing = <<>>
    /\ changeTimers = {}
    /\ ~isChanging
    /\ \A p \in SuccessResponses : ENABLED Receive(p)
    /\ preferredVoice = lastSuccess

\* C8: preferred_voice changes only in the handling of a success response,
\* and to that response's currentVoice.
C8_PreferenceWrittenOnSuccessOnly ==
    [][preferredVoice' # preferredVoice
          => \E p \in SuccessResponses :
                Receive(p) /\ preferredVoice' = p.currentVoice]_vars

\* a success response has replaced a preference by another one
C8_Witness ==
    /\ lastEvent = "recv_success"
    /\ SelectorMounted
    /\ preferredVoice = "nova"
    /\ lastSuccess = "nova"

\* C9 as stated: a token request is started only while connectionDetails
\* is null, and stored details are never replaced: they change only to
\* null, by disconnect.
C9_OneConnectionDetails ==
    [][/\ (Len(fetchBody') > Len(fetchBody)) => connectionDetails = NoDetails
       /\ (connectionDetails # NoDetails /\ connectionDetails' # connectionDetails)
             => (connectionDetails' = NoDetails /\ DisconnectFromAgent)]_vars

\* C9 amended: stored details change only to null, by disconnect or by
\* Back to Home, which unmounts VoiceChat and the session with it.
C9_DetailsClearedBeforeNewRequest ==
    /\ [](fetchBody # <<>> => connectionDetails = NoDetails)
    /\ [][/\ (Len(fetchBody') > Len(fetchBody)) => connectionDetails = NoDetails
          /\ (connectionDetails # NoDetails /\ connectionDetails' # connectionDetails)
                => /\ connectionDetails' = NoDetails
                   /\ DisconnectFromAgent \/ BackToHome]_vars

\* the details of a session are stored, with the trimmed name as identity,
\* and no request is in flight
C9_Witness ==
    /\ lastEvent = "token_ok"
    /\ SessionOpen
    /\ connectionDetails[1].identity = <<"A">>
    /\ participantName = <<" ", "A">>
    /\ fetchBody = <<>>
    /\ ~isConnecting

\* C10: a connect attempt with an empty or white-space name starts no token
\* request, sets the error "Please enter your name", and leaves
\* connectionDetails null and isConnecting false.
C10_BlankNameRejected ==
    [][(ConnectToAgent /\ Trim(participantName) = <<>>)
          => /\ fetchBody' = <<>>
             /\ error' = "Please enter your name"
             /\ connectionDetails' = NoDetails
             /\ ~isConnecting']_vars

\* a connect attempt with a white-space name was rejected
C10_Witness ==
    /\ lastEvent = "connect_rejected"
    /\ participantName = <<" ">>
    /\ error = ErrEnterName
    /\ fetchBody = <<>>
    /\ ~isConnecting
    /\ connectionDetails = NoDetails

\* the token request has failed: fetch rejected, the status is not 2xx, or
\* the body of a 2xx response is not JSON
TokenRequestFailed(o) ==
    \/ o.kind = "network_error"
    \/ o.kind = "response" /\ o.status \notin 200..299
    \/ o.kind = "response" /\ ~o.json

\* C11: when the token request fails (network error, status that is not
\* 2xx, unreadable body) the client records an error message,
\* connectionDetails stays null, and isConnecting is false again with the
\* name kept, so that connectToAgent is accepted again.
C11_FailureLeavesIdle ==
    [][\A o \in TokenOutcomes :
          (TokenResponse(o) /\ TokenRequestFailed(o))
              => /\ error' # NULL
                 /\ connectionDetails' = NoDetails
                 /\ ~isConnecting'
                 /\ participantName' = participantName
                 /\ ~NameIsBlank(participantName')]_vars

C11_Witness ==
    /\ lastEvent = "token_failed"
    /\ error = ErrBody
    /\ ~SessionOpen
    /\ ~isConnecting
    /\ ENABLED ConnectToAgent

\* the token request has succeeded with the four values
TokenRequestSucceeded(o) ==
    /\ o.kind = "response"
    /\ o.status = 200
    /\ o.json
    /\ DOMAIN o.body = {"accessToken", "url", "roomName", "identity"}

\* C12: when the token request succeeds with {accessToken, url, roomName,
\* identity} the client stores exactly those four values as
\* connectionDetails, isConnecting is false again, and the session
\* component is rendered with that accessToken, that url and connect=true:
\* the client has left Idle, and the only connection state the session can
\* enter next is Connecting.
C12_SuccessOpensSession ==
    [][\A o \in TokenOutcomes :
          (TokenResponse(o) /\ TokenRequestSucceeded(o))
              => /\ ~SessionOpen
                 /\ connectionDetails' = <<o.body>>
                 /\ ~isConnecting'
                 /\ SessionOpen'
                 /\ RoomProps' = [token |-> o.body.accessToken,
                                  serverUrl |-> o.body.url, connect |-> TRUE]
                 /\ {t \in ConnectionStates :
                        <<connectionState', t>> \in RoomTransitions} = {"Connecting"}]_vars

C12_Witness ==
    /\ lastEvent = "token_ok"
    /\ ~isConnecting
    /\ connectionDetails =
          <<ConnectionDetails(Jwt("APIkey", "secret", <<"A">>, RoomName(SessionSuffix)),
                              "wss://x", RoomName(SessionSuffix), <<"A">>)>>
    /\ RoomProps.serverUrl = "wss://x"
    /\ \E a \in AudioAttempts : ENABLED RoomStateChange("Connecting", a)

\* nothing of a session is mounted: no connection, no participant handle,
\* no selector state, no armed timer, and no payload is delivered to a
\* data listener
SessionUnmounted ==
    /\ connectionState = "Disconnected"
    /\ ~hasLocalParticipant
    /\ currentVoice = DefaultVoice
    /\ ~isChanging
    /\ localCurrentVoice = NULL
    /\ previewingVoice = NULL
    /\ changeTimers = {}
    /\ ~previewTimer
    /\ publishing = <<>>
    /\ audioResumes = 0
    /\ \A p \in Payloads : ~ENABLED Receive(p)

\* C13: disconnect is available in every connection state of an open
\* session; one disconnect step sets connectionDetails to null, unmounts
\* the session component with its data listeners and returns the client to
\* Idle; and in no reachable state is connectionDetails null while
\* something of a session is mounted.
C13_DisconnectUnmounts ==
    /\ [](SessionOpen => ENABLED DisconnectFromAgent)
    /\ [](~SessionOpen => SessionUnmounted)
    /\ [][DisconnectFromAgent
            => (connectionDetails' = NoDetails /\ ~SessionOpen' /\ SessionUnmounted')]_vars

C13_Witness ==
    /\ lastEvent = "disconnect"
    /\ connectionDetails = NoDetails
    /\ SessionUnmounted

\* the message of the JSON envelope of a response that is not ok when it
\* has one, the fixed string otherwise
ErrorOfResponse_Envelope(outcome) ==
    IF outcome.json /\ "error" \in DOMAIN outcome.body
    THEN outcome.body.error ELSE ErrNotOk

\* C14: when the token endpoint answers with a status that is not 2xx and
\* a JSON envelope that carries a message, the error the client shows is
\* that message verbatim; the fixed string is shown only when there is no
\* message.
C14_EnvelopeMessageShown ==
    [][\A o \in TokenOutcomes :
          (TokenResponse(o) /\ o.kind = "response" /\ o.status \notin 200..299)
              => error' = ErrorOfResponse_Envelope(o)]_vars

\* C21: after every accepted preview request (previewingVoice set to a
\* voice id) previewingVoice returns to null, when the 4 s timer fires or
\* at once when publishing fails, whatever arrives in between; and no
\* inbound message changes previewingVoice.
C21_PreviewEventuallyClears ==
    /\ [](previewingVoice # NULL => <>(previewingVoice = NULL))
    /\ [][\A p \in Payloads : Receive(p) => UNCHANGED previewingVoice]_vars

\* C22: a session starts with audio not initialized and no resume pending;
\* at every transition into Connected with audio not initialized, the first
\* one included, the client makes an attempt: audio is initialized at once
\* when the attempt can be made and the context runs, and resume() is
\* awaited when the context is suspended; while Connected with audio not
\* initialized the Enable Audio button is offered and a click calls
\* resume() on every context it can construct; audio becomes initialized
\* otherwise only when a pending resume() resolves; once audio is
\* initialized it stays so until the session closes, and the button is not
\* offered.
C22_AudioResumeOrButton ==
    /\ [][/\ (~SessionOpen /\ SessionOpen') => (~audioInitialized' /\ audioResumes' = 0)
          /\ (connectionState' = "Connected" /\ connectionState # "Connected"
                /\ ~audioInitialized)
                => \A a \in AudioAttempts :
                      RoomStateChange("Connected", a)
                          => /\ audioInitialized' = (a.webkit /\ a.context = "running")
                             /\ audioResumes' = audioResumes
                                   + (IF a.webkit /\ a.context = "suspended" THEN 1 ELSE 0)
          /\ (lastEvent' = "enable_audio")
                => \A a \in AudioAttempts :
                      EnableAudio(a)
                          => /\ ~audioInitialized'
                             /\ audioResumes' = audioResumes
                                   + (IF a.context # "throws" THEN 1 ELSE 0)
          /\ (audioInitialized' /\ ~audioInitialized /\ connectionState' = connectionState)
                => (audioResumes > 0 /\ ResumeSettles("resolved"))
          /\ (audioInitialized /\ SessionOpen') => audioInitialized']_vars
    /\ []((SessionOpen /\ connectionState = "Connected" /\ ~audioInitialized
             /\ audioResumes < MaxResumes)
            => \A a \in AudioAttempts : ENABLED EnableAudio(a))
    /\ [](audioInitialized => \A a \in AudioAttempts : ~ENABLED EnableAudio(a))

\* the automatic attempt has left audio not initialized, the button was
\* clicked and its resume() is pending
C22_Witness ==
    /\ lastEvent = "enable_audio"
    /\ connectionState = "Connected"
    /\ ~audioInitialized
    /\ audioResumes = 1
    /\ ENABLED ResumeSettles("resolved")

\* the persisted preference when there is one, "luna" otherwise
PreferenceOrDefault == IF preferredVoice \notin {NULL, ""} THEN preferredVoice ELSE "luna"

\* C23: when the session's UI mounts, currentVoice becomes the persisted
\* preference if there is one and "luna" otherwise; when the selector
\* mounts, nothing having been received in the session, the same holds for
\* currentVoice, for localCurrentVoice and for the voice displayed; for
\* every persisted value.
C23_MountVoiceIsPreference ==
    [][/\ (~SessionOpen /\ SessionOpen') => currentVoice' = PreferenceOrDefault
       /\ (connectionState' = "Connected" /\ connectionState # "Connected"
             /\ SessionOpen' /\ lastSuccess = NULL)
             => /\ currentVoice' = PreferenceOrDefault
                /\ localCurrentVoice' = PreferenceOrDefault
                /\ CurrentVoiceData(localCurrentVoice') = PreferenceOrDefault]_vars

\* C25: whenever the selector is mounted, its localCurrentVoice equals
\* the session UI's currentVoice: after mount, after any
\* voice_change_response and after any remount.
C25_CopiesAgree ==
    SelectorMounted => localCurrentVoice = currentVoice

\* a remount after a response received while the selector was away
C25_Witness ==
    /\ SelectorMounted
    /\ lastEvent = "room_Connected"
    /\ preferredVoice = NULL
    /\ lastSuccess = "stella"
    /\ localCurrentVoice = "stella"
    /\ currentVoice = "stella"

\* C30: the voice displayed as current is always one of the five catalog
\* entries: the entry whose id is localCurrentVoice when there is one, the
\* first entry (luna) otherwise, for every value localCurrentVoice takes.
C30_DisplayedVoiceInCatalog ==
    SelectorMounted
        => /\ CurrentVoiceData(localCurrentVoice) \in
                 {"luna", "stella", "athena", "orion", "arcas"}
           /\ (\E i \in 1..5 : AVAILABLE_VOICES[i] = localCurrentVoice)
                 => CurrentVoiceData(localCurrentVoice) = localCurrentVoice
           /\ (\A i \in 1..5 : AVAILABLE_VOICES[i] # localCurrentVoice)
                 => CurrentVoiceData(localCurrentVoice) = "luna"

\* a success response has carried an id outside the catalog
C30_Witness ==
    /\ SelectorMounted
    /\ lastEvent = "recv_success"
    /\ localCurrentVoice = "nova"
    /\ CurrentVoiceData(localCurrentVoice) = "luna"

\* the index in published of the voice_change message published last, 0
\* when there is none
LatestChange ==
    LET idx == {i \in 1..Len(published) : published[i].type = "voice_change"}
    IN  IF idx = {} THEN 0 ELSE CHOOSE i \in idx : \A j \in idx : i >= j

\* C24: from the publication of a voice_change message until a response is
\* received or its own 5 s timer has fired, isChanging stays true and no
\* other voice_change message is published; a timer armed by an earlier
\* request does not clear the busy flag of a later one.
C24_BusyUntilAnsweredOrOwnTimeout ==
    [][(/\ isChanging
        /\ SelectorMounted
        /\ SelectorMounted'
        /\ LatestChange \in changeTimers
        /\ LatestChange \in changeTimers'
        /\ ~(\E p \in ResponsePayloads : Receive(p)))
          => (isChanging' /\ LatestChange' = LatestChange)]_vars

\* C26: within a session a message is published only when a pending
\* publishData call resolves, which ends the call; a call for a
\* voice_change message is made only by an accepted selection of that
\* voice, one call for one selection; the expiry of a timer, a response, a
\* rejected call and a change of the connection state publish nothing and
\* make no call.
C26_PublishOnlyOnAcceptedSelection ==
    [][/\ (published' # published /\ SessionOpen')
          => \E i \in 1..Len(publishing) :
                /\ PublishSettles(i, "resolved")
                /\ published' = Append(published, publishing[i].msg)
                /\ publishing' = RemoveAt(publishing, i)
       /\ (Len(publishing') > Len(publishing))
          => /\ Len(publishing') = Len(publishing) + 1
             /\ SubSeq(publishing', 1, Len(publishing)) = publishing
             /\ published' = published
             /\ publishing'[Len(publishing')].msg.type = "voice_change"
                   => \E v \in SelectInputs :
                         /\ VoiceChangeAccepted(v)
                         /\ HandleVoiceChange(v)
                         /\ publishing'[Len(publishing')].msg = VoiceChangeMessage(v)
       /\ (lastEvent' \in {"change_timer", "recv_failure", "select_publish_failed",
                           "room_Connecting", "room_Connected", "room_Reconnecting",
                           "room_Disconnected"})
          => (published' = published /\ Len(publishing') <= Len(publishing))]_vars

\* the timer of the one request has expired and nothing was published again
C26_Witness ==
    /\ lastEvent = "change_timer"
    /\ ~isChanging
    /\ published = <<VoiceChangeMessage("stella")>>
    /\ publishing = <<>>

\* C27: a selection or a preview, and the publication of its message or
\* the failure of it, leave currentVoice,
\* localCurrentVoice and the persisted preference unchanged; while the
\* session stays open currentVoice changes only when the selector mounts or
\* a success response is handled, and while the selector stays mounted
\* localCurrentVoice changes only when a success response is handled.
C27_NoOptimisticUpdate ==
    [][/\ (lastEvent' \in {"select_ignored", "select_no_handle", "select_requested",
                           "select_published", "select_publish_failed",
                           "preview_ignored", "preview_no_handle", "preview_requested",
                           "preview_published", "preview_publish_failed"})
             => /\ currentVoice' = currentVoice
                /\ localCurrentVoice' = localCurrentVoice
                /\ preferredVoice' = preferredVoice
       /\ (SessionOpen /\ SessionOpen' /\ currentVoice' # currentVoice)
             => \/ connectionState # "Connected" /\ connectionState' = "Connected"
                \/ \E p \in SuccessResponses : Receive(p)
       /\ (SelectorMounted /\ SelectorMounted' /\ localCurrentVoice' # localCurrentVoice)
             => \E p \in SuccessResponses : Receive(p)]_vars

C27_Witness ==
    /\ lastEvent = "select_published"
    /\ isChanging
    /\ published = <<VoiceChangeMessage("stella")>>
    /\ currentVoice = "luna"
    /\ localCurrentVoice = "luna"
    /\ preferredVoice = NULL

\* the token requests in flight
OutstandingRequests == Len(fetchBody) + Len(abandonedFetches)

\* C28 as stated: isConnecting is true exactly while a token request is
\* outstanding, and there is never more than one; while it is true
\* connectionDetails is null, the error is null, and neither a connect nor
\* an edit of the name can be made; isConnecting and a non-null
\* connectionDetails never hold together.
C28_ConnectingIffRequestOutstanding ==
    /\ isConnecting <=> OutstandingRequests > 0
    /\ OutstandingRequests <= 1
    /\ ~(isConnecting /\ connectionDetails # NoDetails)
    /\ isConnecting
          => /\ connectionDetails = NoDetails
             /\ error = NULL
             /\ ~ENABLED ConnectToAgent
             /\ \A n \in NameInputs : ~ENABLED SetParticipantName(n)

\* C29 as stated: disconnect sets connectionDetails to null and
\* participantName to empty and leaves error and isConnecting unchanged,
\* and in the Idle form the error recorded by onError stays until a
\* connect attempt with a non-blank name clears it.
C29_ErrorKeptUntilNamedConnect ==
    [][/\ (lastEvent' = "disconnect" /\ DisconnectFromAgent)
             => /\ connectionDetails' = NoDetails
                /\ participantName' = <<>>
                /\ UNCHANGED <<error, isConnecting, fetchBody, preferredVoice>>
       /\ (~SessionOpen /\ error = ErrRoom /\ error' # error)
             => /\ ConnectToAgent
                /\ ~NameIsBlank(participantName)
                /\ error' = NULL]_vars

\* C29 amended: the error stays until the next connect attempt, which
\* replaces it with "Please enter your name" when the name is blank and
\* clears it otherwise, or until Back to Home unmounts the form.
C29_ErrorKeptUntilConnectAttempt ==
    [][/\ (lastEvent' = "disconnect" /\ DisconnectFromAgent)
             => /\ connectionDetails' = NoDetails
                /\ participantName' = <<>>
                /\ UNCHANGED <<error, isConnecting, fetchBody, preferredVoice>>
       /\ (~SessionOpen /\ error = ErrRoom /\ error' # error)
             => \/ /\ ConnectToAgent
                   /\ error' = IF NameIsBlank(participantName)
                               THEN ErrEnterName ELSE NULL
                \/ BackToHome /\ ~showVoiceChat']_vars

\* the form is shown after a disconnect with the session's error
C29_Witness ==
    /\ lastEvent = "disconnect"
    /\ showVoiceChat
    /\ ~SessionOpen
    /\ error = ErrRoom
    /\ participantName = <<>>
    /\ ~isConnecting

\* ------------------------------------------------- claims on the routes

\* the token route has handled its request
TokenHandled == srvIn.route = "token" /\ srvResponse # <<>>

\* a configuration value is there when it is set and not empty
Present(v) == v # NULL /\ v # ""

ConfigPresent(env) == Present(env.url) /\ Present(env.key) /\ Present(env.secret)

StartsWith(text, prefix) ==
    Len(text) >= Len(prefix) /\ SubSeq(text, 1, Len(prefix)) = prefix

\* C15: for every request handled while the three configuration values are
\* present, whatever its body (participantName given, absent, no JSON body
\* at all), the status is 200, the response carries the token that was
\* signed, and roomName starts with "voice-chat-".  Signing is taken to
\* succeed.
C15_ConfiguredAlwaysIssues ==
    (TokenHandled /\ ConfigPresent(srvIn.env) /\ srvIn.signing = "resolves")
        => /\ srvResponse[1].status = 200
           /\ "accessToken" \in DOMAIN srvResponse[1].body
           /\ srvSigned = <<srvResponse[1].body.accessToken>>
           /\ StartsWith(srvResponse[1].body.roomName, <<"voice-chat-">>)

\* the names of the configuration values, in the order url, key, secret
ConfigNames ==
    <<"NEXT_PUBLIC_LIVEKIT_URL", "NEXT_PUBLIC_LIVEKIT_API_KEY", "LIVEKIT_API_SECRET">>

ConfigValues(env) == <<env.url, env.key, env.secret>>

\* the configuration names that occur in a text, in the order they occur
NamesIn(text) ==
    SelectSeq(text, LAMBDA piece : \E i \in 1..3 : piece = ConfigNames[i])

\* names holds exactly the names of the absent values of env, each once,
\* in the order url, key, secret
NamesExactlyAbsent(names, env) ==
    /\ \A i \in 1..3 :
          (\E j \in 1..Len(names) : names[j] = ConfigNames[i])
              <=> ~Present(ConfigValues(env)[i])
    /\ \A j, k \in 1..Len(names) :
          j < k => \E a, b \in 1..3 :
                      a < b /\ names[j] = ConfigNames[a] /\ names[k] = ConfigNames[b]

\* C16: when one or more of the three configuration values is absent then,
\* for every request, the status is 500, the details field names exactly
\* the absent values in the order url, key, secret, and no token is signed.
C16_MissingConfigReported ==
    (TokenHandled /\ ~ConfigPresent(srvIn.env))
        => /\ srvResponse[1].status = 500
           /\ "details" \in DOMAIN srvResponse[1].body
           /\ NamesExactlyAbsent(NamesIn(srvResponse[1].body.details), srvIn.env)
           /\ srvSigned = <<>>

\* C17: in a successful response identity is the supplied participantName
\* when that is a string that is not blank, and a generated identity that
\* starts with "user-" when participantName is absent, empty or white space
\* only.
C17_IdentityFromName ==
    (TokenHandled /\ srvResponse[1].status = 200)
        => LET pn == srvIn.request.participantName
               identity == srvResponse[1].body.identity
           IN  IF pn # <<>> /\ Trim(pn[1]) # <<>>
               THEN identity = pn[1]
               ELSE StartsWith(identity, <<"user-">>)

\* C18: every token issued is bound to the identity and the roomName the
\* response returns, has the time limit "10m", and grants exactly: join of
\* that room, publish, subscribe, publish data, update own metadata.
C18_TokenBoundAndScoped ==
    TokenHandled
        => /\ srvSigned # <<>> <=> srvResponse[1].status = 200
           /\ \A i \in 1..Len(srvSigned) :
                 LET t == srvSigned[i]
                     body == srvResponse[1].body
                 IN  /\ body.accessToken = t
                     /\ t.sub = body.identity
                     /\ t.ttl = "10m"
                     /\ t.video = [room |-> body.roomName, roomJoin |-> TRUE,
                                   canPublish |-> TRUE, canSubscribe |-> TRUE,
                                   canPublishData |-> TRUE,
                                   canUpdateOwnMetadata |-> TRUE]

C18_Witness ==
    /\ TokenHandled
    /\ Len(srvSigned) = 1
    /\ srvSigned[1].sub = <<"user-", "x", "9">>
    /\ srvSigned[1].video.room = <<"voice-chat-">>
    /\ srvResponse[1].body.url = "wss://x"

\* the signing call is reached and fails
SigningFailed ==
    /\ ~RequestJsonThrows(srvIn.request)
    /\ ConfigPresent(srvIn.env)
    /\ srvIn.signing = "rejects"

\* C19: when the signing call fails the response is status 500 with a body
\* that is exactly {error: "Failed to create access token"}, nothing of the
\* cause in it; and no response of the token route carries both an
\* accessToken and an error.
C19_SigningFailureIsGeneric ==
    TokenHandled
        => /\ SigningFailed
                => /\ srvResponse[1].status = 500
                   /\ srvResponse[1].body = [error |-> "Failed to create access token"]
                   /\ srvSigned = <<>>
           /\ ~ /\ "accessToken" \in DOMAIN srvResponse[1].body
                /\ "error" \in DOMAIN srvResponse[1].body

C19_Witness ==
    /\ TokenHandled
    /\ SigningFailed
    /\ srvIn.request.participantName = <<<<"A">>>>
    /\ srvResponse[1].status = 500
    /\ DOMAIN srvResponse[1].body = {"error"}

\* a proxy route has handled its request
ProxyHandled == srvIn.route \in {"init", "message"} /\ srvResponse # <<>>

\* the fixed error message of the operation
ProxyError(route) == IF route = "init" THEN ErrInit ELSE ErrMessage

\* what the proxy answers, given that it has asked the backend: the body B
\* of a success reply with status 200, the fixed message with status 500
\* when the backend is unreachable or replies with another status
ProxyRelays ==
    LET b == srvIn.backend
    IN  /\ (b.kind = "response" /\ b.status \in 200..299 /\ b.json)
            => srvResponse[1] = [status |-> 200, body |-> b.body]
        /\ (b.kind = "unreachable" \/ (b.kind = "response" /\ b.status \notin 200..299))
            => srvResponse[1] =
                  [status |-> 500, body |-> [error |-> ProxyError(srvIn.route)]]

\* C20: for init and message, a success reply with JSON body B is answered
\* with status 200 and body B unchanged, every failure (backend
\* unreachable, status that is not a success) with status 500 and exactly
\* the fixed error message of the operation, and every incoming request
\* causes exactly one backend request.
C20_ProxyRelaysOnce ==
    ProxyHandled
        => /\ Len(srvBackendRequests) = 1
           /\ Len(srvBackendRequests) >= 1 => ProxyRelays

\* reading the body of the incoming request throws in the message route
\* (message/route.ts:5): there is no body, it is not JSON, or it is the
\* JSON text null
IncomingUnreadable == srvIn.route = "message" /\ RequestJsonThrows(srvIn.request)

\* C20, amended: for init and message, a success reply with JSON body B is
\* answered with status 200 and body B unchanged and every failure (backend
\* unreachable, status that is not a success) with status 500 and exactly
\* the fixed error message of the operation; every incoming request causes
\* exactly one backend request, a message request whose body is JSON but
\* not an object included, except a message request whose body is absent,
\* is not JSON or is the JSON text null, which causes none and is answered
\* with status 500 and the fixed error message.
C20_ProxyRelaysAtMostOnce ==
    ProxyHandled
        => IF IncomingUnreadable
           THEN /\ srvBackendRequests = <<>>
                /\ srvResponse[1] = [status |-> 500, body |-> [error |-> ErrMessage]]
           ELSE /\ Len(srvBackendRequests) = 1
                /\ ProxyRelays

\* a message request whose body is JSON but not an object was forwarded,
\* with neither field, and the reply of the backend relayed
C20_Witness ==
    /\ ProxyHandled
    /\ srvIn.route = "message"
    /\ srvIn.request.json = "value"
    /\ srvIn.backend.kind = "response"
    /\ srvIn.backend.status = 201
    /\ srvResponse[1] = [status |-> 200, body |-> srvIn.backend.body]
    /\ Len(srvBackendRequests) = 1
    /\ srvBackendRequests[1].url = "http://localhost:8000/api/chat/message"
    /\ DOMAIN srvBackendRequests[1].body[1] = {}
====
